---- MODULE Spec2Model ----
(***************************************************************************)
(* Model of streamlit_todo_app.py: the task store kept in                  *)
(* st.session_state.tasks, its mirror in tasks.json, the edit session and  *)
(* the filtered/sorted view.  One action is one run of the script caused   *)
(* by one user event: the load on line 81, the handler of the event, and   *)
(* the save the handler performs.  Streamlit can end a run at an st.* call *)
(* when a newer event is waiting; the one handler with such a call between *)
(* two changes of the state, Save changes, has that outcome as an input.   *)
(*                                                                         *)
(* A Python str is a sequence of one-character strings, so that strip(),   *)
(* slicing, str comparison and the JSON text are computed, not assumed.    *)
(*                                                                         *)
(* Not in the state: st.session_state.refresh, which the handlers toggle   *)
(* and nothing reads.  The widgets are Streamlit's: what the user enters   *)
(* in them is an input of the action, and a row's buttons are available    *)
(* for every task of the store, since each task is rendered under the      *)
(* filter that shows everything.                                           *)
(***************************************************************************)
EXTENDS Integers, Sequences, FiniteSets, TLC

VARIABLES
    tasks,      \* st.session_state.tasks: the in-memory list of task dicts
    data_file,  \* the content of tasks.json (DATA_FILE)
    edit,       \* the edit_* keys of st.session_state, or NoEdit when absent
    last        \* the event the latest script run handled, and whether it called save_tasks

vars == <<tasks, data_file, edit, last>>

(***************************************************************************)
(* Bounds of the model.                                                    *)
(***************************************************************************)
\* the store is unbounded in the code (line 130 appends unconditionally); the
\* model stops submitting the add form once the store holds this many tasks
MaxTasks == 3

(***************************************************************************)
(* Python str helpers.                                                     *)
(***************************************************************************)
\* the characters the model compares, in code point order
Alphabet ==
    << " ", "+", "-", ".", "0", "1", "2", "3", "4", "5", "6", "7", "8", "9",
       ":", "T", "n", "o", "s", "x" >>

Ord(c) == CHOOSE i \in 1..Len(Alphabet) : Alphabet[i] = c

Whitespace == {" "}

Min(a, b) == IF a < b THEN a ELSE b

\* str.strip(): drop leading and trailing whitespace
strip(s) ==
    LET keep == {i \in 1..Len(s) : s[i] \notin Whitespace}
    IN  IF keep = {} THEN <<>>
        ELSE LET lo == CHOOSE i \in keep : \A j \in keep : i <= j
                 hi == CHOOSE i \in keep : \A j \in keep : j <= i
             IN  SubSeq(s, lo, hi)

\* s[:n]
Prefix(s, n) == SubSeq(s, 1, Min(Len(s), n))

\* a < b for two str: the first differing code point decides, a proper prefix is smaller
StrLess(a, b) ==
    \E k \in 1..(Min(Len(a), Len(b)) + 1) :
        /\ \A j \in 1..(k - 1) : a[j] = b[j]
        /\ \/ k > Len(a) /\ k <= Len(b)
           \/ k <= Len(a) /\ k <= Len(b) /\ Ord(a[k]) < Ord(b[k])

Digits == << "0", "1", "2", "3", "4", "5", "6", "7", "8", "9" >>

\* the decimal text of a natural number
RECURSIVE IntToStr(_)
IntToStr(n) ==
    IF n < 10 THEN << Digits[n + 1] >>
    ELSE IntToStr(n \div 10) \o << Digits[(n % 10) + 1] >>

DigitValue(c) == (CHOOSE i \in 1..10 : Digits[i] = c) - 1

\* the number a decimal text denotes
RECURSIVE StrToInt(_)
StrToInt(s) ==
    IF Len(s) = 0 THEN 0
    ELSE 10 * StrToInt(SubSeq(s, 1, Len(s) - 1)) + DigitValue(s[Len(s)])

\* n as at least w decimal digits, zero padded ("%0wd")
RECURSIVE ZeroPad(_, _)
ZeroPad(n, w) ==
    LET d == IntToStr(n)
    IN  IF Len(d) >= w THEN d ELSE << "0" >> \o ZeroPad(n, w - 1)

(***************************************************************************)
(* Dates and times.                                                        *)
(***************************************************************************)
\* st.date_input(..., value=None) with no date picked
NoDate == [none |-> TRUE]

\* str(date): "%04d-%02d-%02d"
DateToStr(d) ==
    ZeroPad(d.y, 4) \o << "-" >> \o ZeroPad(d.m, 2) \o << "-" >> \o ZeroPad(d.d, 2)

\* datetime.now(timezone.utc) reads the wall clock in whole microseconds; a
\* reading is the number of microseconds after the epoch, below one minute.
RECURSIVE Pow2(_)
Pow2(n) == IF n = 0 THEN 1 ELSE 2 * Pow2(n - 1)

\* 2^n modulo 1000
RECURSIVE Pow2Mod1000(_)
Pow2Mod1000(n) == IF n = 0 THEN 1 ELSE (2 * Pow2Mod1000(n - 1)) % 1000

\* floor(log2(k)) for 1 <= k < 2^16
FloorLog2(k) == CHOOSE p \in 0..15 : Pow2(p) <= k /\ k < Pow2(p + 1)

\* floor(log2(k / 1000)) for 1 <= k < 64000
FloorLog2Milli(k) ==
    CHOOSE q \in -10..5 :
        IF q >= 0 THEN Pow2(q) * 1000 <= k /\ k < Pow2(q + 1) * 1000
        ELSE 1000 <= k * Pow2(-q) /\ k * Pow2(-q) < 2000

\* int(datetime.now(timezone.utc).timestamp() * 1000) when the clock reads us
\* microseconds.  timestamp() is the double nearest to us / 10^6, its product
\* with 1000 is rounded to a double again, and int() truncates.
\*  - Off a millisecond boundary the exact product lies at least 0.001 from an
\*    integer, farther than both roundings reach: the result is us div 1000.
\*  - On a boundary, us = 1000 * k, timestamp() is m / 2^s with
\*    m = round(k * 2^s / 1000) of 53 bits, s = 52 - floor(log2(k / 1000)), and
\*    r = (k * 2^s) mod 1000 is what the rounding of m drops (r < 500, never
\*    500 since 8 divides k * 2^s) or adds (r > 500).  Rounded up or exact, the
\*    product is at least k.  Rounded down, it is k - r / 2^s, which rounds
\*    back to k when r is at most half the gap between k and the double below
\*    it (a tie goes to k, whose significand is even), and to the double below
\*    k otherwise: int() then gives k - 1.
timestamp_ms(us) ==
    LET k == us \div 1000
    IN  IF us % 1000 # 0 \/ k = 0 THEN k
        ELSE LET p == FloorLog2(k)
                 q == FloorLog2Milli(k)
                 r == ((k % 1000) * Pow2Mod1000(52 - q)) % 1000
                 \* half the gap below k, in units of 2^-s
                 half == Pow2(p - q - 1 - (IF k = Pow2(p) THEN 1 ELSE 0))
             IN  IF r = 0 \/ r > 500 \/ r <= half THEN k ELSE k - 1

\* datetime.now(timezone.utc).isoformat() when the clock reads us microseconds:
\* the six-digit fraction is left out when the microsecond field is zero
isoformat(us) ==
    << "1", "9", "7", "0", "-", "0", "1", "-", "0", "1", "T", "0", "0", ":", "0", "0", ":" >>
    \o ZeroPad((us \div 1000000) % 60, 2)
    \o (IF us % 1000000 = 0 THEN <<>> ELSE << "." >> \o ZeroPad(us % 1000000, 6))
    \o << "+", "0", "0", ":", "0", "0" >>

\* the readings of the wall clock the model draws for one add, as
\* << the reading of line 121, the reading of line 124 >>: two adds whose
\* second reading is later than the first, in different milliseconds, and an
\* add on the millisecond boundary 1001 (whose id is 1000) with a clock too
\* coarse to tell the two lines apart.  The wall clock is not monotonic: a
\* later add can draw the readings of an earlier one.
ClockReadings == { << 1000, 1250 >>, << 2500, 2750 >>, << 1001000, 1001000 >> }

\* the ids the readings give
ClockIds == {timestamp_ms(r[1]) : r \in ClockReadings}

(***************************************************************************)
(* The option lists of the select boxes (the values the model draws).      *)
(***************************************************************************)
Medium == << "M", "e", "d", "i", "u", "m" >>
High == << "H", "i", "g", "h" >>
Low == << "L", "o", "w" >>

uncategorized == << "u", "n", "c", "a", "t", "e", "g", "o", "r", "i", "z", "e", "d" >>
work == << "w", "o", "r", "k" >>
personal == << "p", "e", "r", "s", "o", "n", "a", "l" >>
Categories == {uncategorized, work, personal}

all == << "a", "l", "l" >>
FilterCategories == {all} \cup Categories

created == << "c", "r", "e", "a", "t", "e", "d" >>
due == << "d", "u", "e" >>
priority == << "p", "r", "i", "o", "r", "i", "t", "y" >>
SortKeys == {created, due, priority}

(***************************************************************************)
(* Persistence: json.dump / json.load of the list of task dicts.           *)
(***************************************************************************)
\* the keys of a task dict, in insertion order (lines 120-129)
TaskKeys ==
    << "id", "title", "description", "created_at", "due", "priority", "category", "done" >>

Quote == "\""
Backslash == "\\"

\* the body of a JSON string: quote and backslash are escaped
RECURSIVE Escape(_)
Escape(s) ==
    IF \A i \in 1..Len(s) : s[i] \notin {Quote, Backslash} THEN s
    ELSE (IF Head(s) \in {Quote, Backslash} THEN << Backslash, Head(s) >> ELSE << Head(s) >>)
         \o Escape(Tail(s))

RECURSIVE Unescape(_)
Unescape(s) ==
    IF \A i \in 1..Len(s) : s[i] # Backslash THEN s
    ELSE IF Head(s) = Backslash /\ Len(s) >= 2
         THEN << s[2] >> \o Unescape(SubSeq(s, 3, Len(s)))
         ELSE << Head(s) >> \o Unescape(Tail(s))

JsonTrue == << "t", "r", "u", "e" >>
JsonFalse == << "f", "a", "l", "s", "e" >>

\* the JSON text of the value a task holds under key k: id is an int, done a
\* bool, every other field a str
EncodeValue(k, v) ==
    IF k = "id" THEN IntToStr(v)
    ELSE IF k = "done" THEN (IF v THEN JsonTrue ELSE JsonFalse)
    ELSE << Quote >> \o Escape(v) \o << Quote >>

\* the value a JSON text denotes
DecodeValue(tok) ==
    IF tok = JsonTrue THEN TRUE
    ELSE IF tok = JsonFalse THEN FALSE
    ELSE IF Head(tok) = Quote THEN Unescape(SubSeq(tok, 2, Len(tok) - 1))
    ELSE StrToInt(tok)

\* a dict as a JSON object: its members, key and text, in insertion order
EncodeTask(t) == [i \in 1..Len(TaskKeys) |-> << TaskKeys[i], EncodeValue(TaskKeys[i], t[TaskKeys[i]]) >>]

\* a JSON object as a dict: every key with the value of its last member
DecodeTask(obj) ==
    [k \in {obj[i][1] : i \in 1..Len(obj)} |->
        LET at == CHOOSE i \in 1..Len(obj) :
                      /\ obj[i][1] = k
                      /\ \A j \in 1..Len(obj) : obj[j][1] = k => j <= i
        IN  DecodeValue(obj[at][2])]

\* json.dump(tasks, f): the text written to tasks.json
json_dump(ts) == [kind |-> "json", array |-> [i \in 1..Len(ts) |-> EncodeTask(ts[i])]]

\* json.load(f)
json_load(doc) == [i \in 1..Len(doc.array) |-> DecodeTask(doc.array[i])]

\* tasks.json does not exist
NoFile == [kind |-> "absent"]
\* tasks.json holds text json.load rejects
CorruptFile == [kind |-> "corrupt"]

load_tasks(f) ==
    IF f.kind = "absent" THEN <<>>
    ELSE IF f.kind = "corrupt" THEN <<>>
    ELSE json_load(f)

\* the content of tasks.json after save_tasks(ts)
save_tasks(ts) == json_dump(ts)

(***************************************************************************)
(* The inputs: what the user submits in the add form and types in the      *)
(* edit panel.                                                             *)
(***************************************************************************)
\* the slice length of the title derived from the description (line 122)
TitleSlice == 60

AddForms ==
    { \* no title, a description with surrounding whitespace and a quote in it,
      \* no due date
      [title_input |-> << " " >>, desc_input |-> << " ", "6", Quote, " " >>,
       due |-> NoDate, priority |-> Medium, category |-> uncategorized],
      \* whitespace only
      [title_input |-> << " " >>, desc_input |-> << " ", " " >>,
       due |-> NoDate, priority |-> Medium, category |-> uncategorized],
      \* nothing entered
      [title_input |-> <<>>, desc_input |-> <<>>,
       due |-> [y |-> 2025, m |-> 3, d |-> 9], priority |-> Low, category |-> personal] }

EditForms ==
    { \* the title cleared, a due text that is no date
      [etitle |-> << " " >>, edesc |-> <<>>, edue |-> << " ", "s", "o", "o", "n" >>,
       epriority |-> Low, ecat |-> personal] }

(***************************************************************************)
(* The script run: line 81, then the handler of the event.                 *)
(***************************************************************************)
\* lines 81-82: an empty in-memory list is (re)loaded from the file
Store == IF tasks = <<>> THEN load_tasks(data_file) ELSE tasks

\* the keys of st.session_state that hold the edit session
EditKeys ==
    {"edit_id", "edit_title", "edit_description", "edit_due", "edit_priority", "edit_category"}

\* st.session_state with none of the edit keys
NoEdit == [k \in {} |-> 0]

\* lines 226-228 / 231-233: every edit key that is present is deleted
WithoutEditKeys(state) == [k \in (DOMAIN state) \ EditKeys |-> state[k]]

Event(op, saved) == [op |-> op, saved |-> saved]

\* lines 120-129: the task dict built from the form when the clock reads
\* now_id microseconds on line 121 and now_created microseconds on line 124
NewTask(form, now_id, now_created) ==
    [ id |-> timestamp_ms(now_id),
      title |-> IF strip(form.title_input) # <<>>
                THEN strip(form.title_input)
                ELSE Prefix(strip(form.desc_input), TitleSlice) \o << ".", ".", "." >>,
      description |-> strip(form.desc_input),
      created_at |-> isoformat(now_created),
      due |-> IF form.due = NoDate THEN <<>> ELSE DateToStr(form.due),
      priority |-> form.priority,
      category |-> form.category,
      done |-> FALSE ]

\* SubmitAdd with the blank test made on the raw inputs, strip() forgotten
SubmitAdd_NoStrip(form, now_id, now_created) ==
    IF form.title_input = <<>> /\ form.desc_input = <<>>
    THEN /\ tasks' = Store
         /\ last' = Event("add_rejected", FALSE)
         /\ UNCHANGED << data_file, edit >>
    ELSE /\ Len(Store) < MaxTasks
         /\ tasks' = Append(Store, NewTask(form, now_id, now_created))
         /\ data_file' = save_tasks(tasks')
         /\ last' = Event("add", TRUE)
         /\ UNCHANGED edit

\* lines 116-133: "Add task" submitted
SubmitAdd(form, now_id, now_created) ==
    IF strip(form.title_input) = <<>> /\ strip(form.desc_input) = <<>>
    THEN /\ tasks' = Store
         /\ last' = Event("add_rejected", FALSE)
         /\ UNCHANGED << data_file, edit >>
    ELSE /\ Len(Store) < MaxTasks
         /\ tasks' = Append(Store, NewTask(form, now_id, now_created))
         /\ data_file' = save_tasks(tasks')
         /\ last' = Event("add", TRUE)
         /\ UNCHANGED edit

\* WithoutId that returns the kept tasks in reverse order
WithoutId_Reversed(ts, id) ==
    LET kept == SelectSeq(ts, LAMBDA x : x.id # id)
    IN  [i \in 1..Len(kept) |-> kept[Len(kept) + 1 - i]]

\* line 190 / 195: [x for x in tasks if x['id'] != id]
WithoutId(ts, id) == SelectSeq(ts, LAMBDA x : x.id # id)

\* lines 181-188: "Edit" clicked on the row of t
ClickEdit(t) ==
    /\ tasks' = Store
    /\ edit' = [edit_id |-> t.id, edit_title |-> t.title,
                edit_description |-> t.description, edit_due |-> t.due,
                edit_priority |-> t.priority, edit_category |-> t.category]
    /\ last' = Event("edit", FALSE)
    /\ UNCHANGED data_file

\* lines 189-193: "Delete" clicked on the row of t
ClickDelete(t) ==
    /\ tasks' = WithoutId(Store, t.id)
    /\ data_file' = save_tasks(tasks')
    /\ last' = Event("delete", TRUE)
    /\ UNCHANGED edit

\* ClickMoveToTop with the save made before the task is reinserted
ClickMoveToTop_SaveFirst(t) ==
    /\ tasks' = << t >> \o WithoutId(Store, t.id)
    /\ data_file' = save_tasks(WithoutId(Store, t.id))
    /\ last' = Event("move_to_top", TRUE)
    /\ UNCHANGED edit

\* lines 194-198: "Move to top" clicked on the row of t
ClickMoveToTop(t) ==
    /\ tasks' = << t >> \o WithoutId(Store, t.id)
    /\ data_file' = save_tasks(tasks')
    /\ last' = Event("move_to_top", TRUE)
    /\ UNCHANGED edit

\* lines 200-202: every task with the id gets the checkbox value
SetDone(ts, id, done) ==
    [i \in 1..Len(ts) |-> IF ts[i].id = id THEN [ts[i] EXCEPT !.done = done] ELSE ts[i]]

\* Checkbox without the comparison of line 199: every render writes and saves
Checkbox_AlwaysSave(t, done) ==
    /\ tasks' = SetDone(Store, t.id, done)
    /\ data_file' = save_tasks(tasks')
    /\ last' = Event(IF done # t.done THEN "set_done" ELSE "render", TRUE)
    /\ UNCHANGED edit

\* lines 170, 199-204: the row of t is rendered with its checkbox reading done
Checkbox(t, done) ==
    IF done # t.done
    THEN /\ tasks' = SetDone(Store, t.id, done)
         /\ data_file' = save_tasks(tasks')
         /\ last' = Event("set_done", TRUE)
         /\ UNCHANGED edit
    ELSE /\ tasks' = Store
         /\ last' = Event("render", FALSE)
         /\ UNCHANGED << data_file, edit >>

\* lines 217-223: the fields of every task with the id are overwritten
Update(ts, id, form) ==
    [i \in 1..Len(ts) |->
        IF ts[i].id = id
        THEN [ts[i] EXCEPT !.title = strip(form.etitle),
                           !.description = strip(form.edesc),
                           !.due = strip(form.edue),
                           !.priority = form.epriority,
                           !.category = form.ecat]
        ELSE ts[i]]

\* line 207: st.session_state.get('edit_id') is truthy, the edit panel is rendered
EditPanelShown == "edit_id" \in DOMAIN edit /\ edit["edit_id"] # 0

\* lines 216-229: "Save changes" clicked in the edit panel.  Between the save
\* of line 224 and the deletion of the edit keys on lines 226-228 the handler
\* calls st.success (line 225), where Streamlit ends the run when a newer event
\* of the session is waiting (stopped): the edit keys then stay
SaveChanges(form, stopped) ==
    /\ EditPanelShown
    /\ tasks' = Update(Store, edit["edit_id"], form)
    /\ data_file' = save_tasks(tasks')
    /\ edit' = IF stopped THEN edit ELSE WithoutEditKeys(edit)
    /\ last' = Event(IF stopped THEN "save_changes_stopped" ELSE "save_changes", TRUE)

\* lines 230-234: "Cancel" clicked in the edit panel
Cancel ==
    /\ EditPanelShown
    /\ tasks' = Store
    /\ edit' = WithoutEditKeys(edit)
    /\ last' = Event("cancel", FALSE)
    /\ UNCHANGED data_file

(***************************************************************************)
(* The filtered and sorted view (lines 145-161).                           *)
(***************************************************************************)
\* Passes with the show_done test dropped
Passes_IgnoreDone(t, show_done, filter_cat) ==
    ~(filter_cat # all /\ t.category # filter_cat)

\* lines 148-151: the task is not skipped
Passes(t, show_done, filter_cat) ==
    /\ ~(~show_done /\ t.done)
    /\ ~(filter_cat # all /\ t.category # filter_cat)

\* lines 146-152: filtered, a new list in store order
Filter(ts, show_done, filter_cat) == SelectSeq(ts, LAMBDA t : Passes(t, show_done, filter_cat))

\* line 156: the key stands in for an empty due
Sentinel == << "9", "9", "9", "9", "-", "9", "9", "-", "9", "9" >>

\* line 156: x.get("due") or "9999-99-99"
DueKey(t) == IF t.due # <<>> THEN t.due ELSE Sentinel

\* lines 158-159: order.get(x.get("priority","Medium"), 1)
PriorityRank(t) ==
    IF t.priority = High THEN 0
    ELSE IF t.priority = Medium THEN 1
    ELSE IF t.priority = Low THEN 2
    ELSE 1

\* a goes before b under the sort key: ascending by due or by rank, descending
\* by created_at (reverse=True)
Before(a, b, sort_by) ==
    IF sort_by = due THEN StrLess(DueKey(a), DueKey(b))
    ELSE IF sort_by = priority THEN PriorityRank(a) < PriorityRank(b)
    ELSE StrLess(b.created_at, a.created_at)

\* x put into the sorted r behind every element it does not go before
InsertSorted(r, x, sort_by) ==
    LET ahead == {j \in 1..Len(r) : Before(x, r[j], sort_by)}
        p == IF ahead = {} THEN Len(r) + 1
             ELSE CHOOSE j \in ahead : \A k \in ahead : j <= k
    IN  SubSeq(r, 1, p - 1) \o << x >> \o SubSeq(r, p, Len(r))

\* list.sort(key=...): stable, equal keys stay in their order
SortedBy(s, sort_by) ==
    LET f[k \in 0..Len(s)] == IF k = 0 THEN <<>> ELSE InsertSorted(f[k - 1], s[k], sort_by)
    IN  f[Len(s)]

\* lines 146-161: the rows the run renders
View(ts, show_done, filter_cat, sort_by) == SortedBy(Filter(ts, show_done, filter_cat), sort_by)

\* the settings << show_done, filter_cat, sort_by >> the model draws for a run
\* that only renders: the defaults, both filters on with the sort by due, and
\* the sort by priority
RerunSettings ==
    { << TRUE, all, created >>, << FALSE, personal, due >>, << TRUE, all, priority >> }

\* Rerun that sorts and filters the store itself instead of a new list
Rerun_InPlace(show_done, filter_cat, sort_by) ==
    /\ tasks' = View(Store, show_done, filter_cat, sort_by)
    /\ last' = Event("render", FALSE)
    /\ UNCHANGED << data_file, edit >>

\* lines 139-161: a filter or sort widget changed; the run builds the rows of
\* the view in the new list `filtered` (lines 146-152), sorts that list (lines
\* 154-161) and handles no other event: st.session_state.tasks is not assigned
Rerun(show_done, filter_cat, sort_by) ==
    /\ tasks' = Store
    /\ last' = Event("render", FALSE)
    /\ UNCHANGED << data_file, edit >>

(***************************************************************************)
(* The specification.                                                      *)
(***************************************************************************)
InitialFiles == {NoFile, CorruptFile}

\* lines 14-17: a new session, before its first script run
Init ==
    /\ tasks = <<>>
    /\ data_file \in InitialFiles
    /\ edit = NoEdit
    /\ last = Event("start", FALSE)

\* lines 14-17: the browser session is replaced by a new one; st.session_state
\* starts over, tasks.json stays
NewSession ==
    /\ tasks' = <<>>
    /\ edit' = NoEdit
    /\ last' = Event("start", FALSE)
    /\ UNCHANGED data_file

Next ==
    \/ \E form \in AddForms, now \in ClockReadings : SubmitAdd(form, now[1], now[2])
    \/ \E i \in 1..Len(Store) : ClickEdit(Store[i])
    \/ \E i \in 1..Len(Store) : ClickDelete(Store[i])
    \/ \E i \in 1..Len(Store) : ClickMoveToTop(Store[i])
    \/ \E i \in 1..Len(Store), done \in BOOLEAN : Checkbox(Store[i], done)
    \/ \E form \in EditForms, stopped \in BOOLEAN : SaveChanges(form, stopped)
    \/ Cancel
    \/ \E w \in RerunSettings : Rerun(w[1], w[2], w[3])
    \/ NewSession

Spec == Init /\ [][Next]_vars

(***************************************************************************)
(* The claims.                                                             *)
(***************************************************************************)
\* the ids of the tasks of ts
IdsOf(ts) == {ts[i].id : i \in 1..Len(ts)}

\* the index in ts of the j-th task whose id is not id
KeptIndex(ts, id, j) ==
    CHOOSE i \in 1..Len(ts) :
        /\ ts[i].id # id
        /\ Cardinality({k \in 1..i : ts[k].id # id}) = j

\* after is before with every task of that id taken out, the others as they were
RemovedById(bef, aft, id) ==
    /\ \A j \in 1..Len(aft) : aft[j].id # id
    /\ Len(aft) = Cardinality({i \in 1..Len(bef) : bef[i].id # id})
    /\ \A j \in 1..Len(aft) : aft[j] = bef[KeptIndex(bef, id, j)]

\* ts without the element at index i
RemoveAt(ts, i) == SubSeq(ts, 1, i - 1) \o SubSeq(ts, i + 1, Len(ts))

\* how often the task r occurs in ts
Count(ts, r) == Cardinality({i \in 1..Len(ts) : ts[i] = r})

\* s consists of whitespace only
Blank(s) == \A i \in 1..Len(s) : s[i] \in Whitespace

\* C1: once a script run has happened, load_tasks() on the persisted file returns
\* exactly the in-memory task list: same tasks, same field values, same order.
C1_RoundTrip == last.op # "start" => load_tasks(data_file) = tasks

\* C1 witness: a reordered store of two tasks, one done with a quote in its title,
\* has just been saved.
C1_Witness ==
    /\ last.op = "move_to_top"
    /\ Len(tasks) = 2
    /\ tasks[1].done
    /\ \E k \in 1..Len(tasks[1].title) : tasks[1].title[k] = Quote
    /\ tasks[2].id # tasks[1].id

\* C2 (as claimed): no two tasks of the store share an id.
C2_UniqueIds ==
    \A i \in 1..Len(tasks) : \A j \in 1..Len(tasks) : i # j => tasks[i].id # tasks[j].id

\* C3 (as claimed): every task of the store has a non-empty title.
C3_TitleNonEmpty == \A i \in 1..Len(tasks) : tasks[i].title # <<>>

\* C4: an add submission whose title and description are both blank after trimming
\* is rejected: the task list is the loaded store, the file is not written.
C4_BlankAddRejected ==
    [][\A form \in AddForms, now \in ClockReadings :
          (Blank(form.title_input) /\ Blank(form.desc_input) /\ SubmitAdd(form, now[1], now[2]))
            => /\ tasks' = Store
               /\ data_file' = data_file
               /\ last'.op = "add_rejected"
               /\ ~last'.saved]_vars

\* C4 witness: a blank submission has been rejected on a store that holds tasks.
C4_Witness ==
    /\ last.op = "add_rejected"
    /\ Len(tasks) >= 1
    /\ data_file = save_tasks(tasks)

\* C5 (as claimed): move_to_top puts the selected task at index 0 followed by every
\* other task in its prior order, the length unchanged, and persists the result.
C5_MoveToTopKeepsAll ==
    [][last'.op = "move_to_top"
         => /\ Len(tasks') = Len(Store)
            /\ \E i \in 1..Len(Store) : tasks' = << Store[i] >> \o RemoveAt(Store, i)
            /\ data_file' = save_tasks(tasks')]_vars

\* C6: delete(id) leaves no task of that id, keeps every task of another id with
\* its fields and in its order, and persists the result; for an id no task has,
\* the list is returned unchanged.
C6_DeleteFrame ==
    [][/\ \A id \in ClockIds \ IdsOf(Store) : WithoutId(Store, id) = Store
       /\ \A i \in 1..Len(Store) :
             ClickDelete(Store[i])
               => /\ RemovedById(Store, tasks', Store[i].id)
                  /\ data_file' = save_tasks(tasks')
                  /\ load_tasks(data_file') = tasks'
                  /\ edit' = edit]_vars

\* C6 witness: a delete on a store of three tasks has left the two others, of
\* different ids, and the file holds them.
C6_Witness ==
    /\ last.op = "delete"
    /\ Len(tasks) = 2
    /\ tasks[1].id # tasks[2].id
    /\ load_tasks(data_file) = tasks

\* C7 (as claimed): Save changes overwrites title, description, due, priority
\* and category of the task whose id is the edit id and keeps its id, created_at,
\* done and position; every task of another id is unchanged; with no task of the
\* edit id the list is unchanged; in both cases the edit session (edit_id and the
\* edit_* fields) is cleared afterwards.
C7_UpdateFrame ==
    [][\A form \in EditForms, stopped \in BOOLEAN :
          SaveChanges(form, stopped)
            => /\ Len(tasks') = Len(Store)
               /\ \A i \in 1..Len(Store) :
                     IF Store[i].id = edit["edit_id"]
                     THEN /\ tasks'[i].id = Store[i].id
                          /\ tasks'[i].created_at = Store[i].created_at
                          /\ tasks'[i].done = Store[i].done
                          /\ tasks'[i].title = strip(form.etitle)
                          /\ tasks'[i].description = strip(form.edesc)
                          /\ tasks'[i].due = strip(form.edue)
                          /\ tasks'[i].priority = form.epriority
                          /\ tasks'[i].category = form.ecat
                     ELSE tasks'[i] = Store[i]
               /\ (edit["edit_id"] \notin IdsOf(Store) => tasks' = Store)
               /\ (DOMAIN edit') \cap EditKeys = {}
               /\ data_file' = save_tasks(tasks')]_vars

\* C8 (as claimed): in the view sorted by due no task with an empty due comes
\* before a task with a non-empty due, and the non-empty dues ascend.
C8_EmptyDueLast ==
    LET v == View(Store, TRUE, all, due)
    IN  \A i \in 1..Len(v) : \A j \in 1..Len(v) :
            i < j => /\ ~(v[i].due = <<>> /\ v[j].due # <<>>)
                     /\ (v[i].due # <<>> /\ v[j].due # <<>> => ~StrLess(v[j].due, v[i].due))

\* C9: for every setting of the filters and the sort key the view holds exactly
\* the tasks of the store that pass both filters, each as often as the store
\* does: no done task when show_done is off, only tasks of the category when one
\* is selected, every task when nothing is filtered.  Computing the view never
\* alters the store: a run that only renders under some setting, and every other
\* run that calls no save, leaves the task list as loaded, in its order, and
\* the file as it was.
C9_ViewIsFilteredStore ==
    /\ [](\A show_done \in BOOLEAN, filter_cat \in FilterCategories, sort_by \in SortKeys :
            LET v == View(Store, show_done, filter_cat, sort_by)
            IN  /\ \A i \in 1..Len(v) :
                      /\ \E k \in 1..Len(Store) : Store[k] = v[i]
                      /\ show_done \/ ~v[i].done
                      /\ filter_cat = all \/ v[i].category = filter_cat
                /\ \A k \in 1..Len(Store) :
                      ((show_done \/ ~Store[k].done)
                       /\ (filter_cat = all \/ Store[k].category = filter_cat))
                        => Count(v, Store[k]) = Count(Store, Store[k])
                /\ (show_done /\ filter_cat = all) => Len(v) = Len(Store)
                /\ Len(v) <= Len(Store))
    /\ [][/\ \A w \in RerunSettings :
                Rerun(w[1], w[2], w[3])
                  => (tasks' = Store /\ data_file' = data_file /\ edit' = edit)
          /\ (last'.op # "start" /\ ~last'.saved)
                => (tasks' = Store /\ data_file' = data_file)]_vars

\* C9 witness: a run has only rendered a store of three tasks of which each
\* filter lets some but not all through and whose sorted view is not in store
\* order; the store is as it was saved.
C9_Witness ==
    /\ last.op = "render"
    /\ Len(tasks) = 3
    /\ data_file = save_tasks(tasks)
    /\ Len(View(tasks, FALSE, all, created)) \in 1..2
    /\ Len(View(tasks, TRUE, personal, created)) \in 1..2
    /\ View(tasks, TRUE, all, priority) # tasks
    /\ View(tasks, TRUE, all, created) # tasks

\* C10: a checkbox that differs from the stored value sets done on the task of
\* that id and nothing else, and the file is written; a render in which the
\* checkbox agrees with the stored value changes nothing and writes nothing.
C10_SetDoneFrame ==
    [][\A i \in 1..Len(Store), done \in BOOLEAN :
          Checkbox(Store[i], done)
            => IF done # Store[i].done
               THEN /\ Len(tasks') = Len(Store)
                    /\ \A k \in 1..Len(Store) :
                          IF Store[k].id = Store[i].id
                          THEN tasks'[k] = [Store[k] EXCEPT !.done = done]
                          ELSE tasks'[k] = Store[k]
                    /\ data_file' = save_tasks(tasks')
                    /\ last'.saved
                    /\ edit' = edit
               ELSE /\ tasks' = Store
                    /\ data_file' = data_file
                    /\ ~last'.saved
                    /\ edit' = edit]_vars

\* C10 witness: a toggle has set done on one task of two and left the other.
C10_Witness ==
    /\ last.op = "set_done"
    /\ Len(tasks) = 2
    /\ tasks[1].done
    /\ ~tasks[2].done
    /\ tasks[1].id # tasks[2].id

====
